---------------------------- MODULE Spec2Model ----------------------------
(***************************************************************************)
(* A model of sudoku_constexpr.cpp: math::isqrt and GenSudoku<T, N>        *)
(* (get, put, row, col, quadrant, sectionValid, next, isValid, isComplete, *)
(* isSolved and the backtracking solve), instantiated at N = 4.            *)
(*                                                                         *)
(* A board is the std::array boardState: a function from the linear index  *)
(* 0 .. N*N-1 to a cell value.  The recursion of solve is unfolded into a  *)
(* call stack of frames, one action per basic block between two calls.     *)
(***************************************************************************)
EXTENDS Integers, Sequences, FiniteSets

(***************************************************************************)
(* Template parameter and bounds                                           *)
(***************************************************************************)

\* template<typename T, size_t N>: the dimension of the board.  The source
\* instantiates N = 9; the properties are checked for the smallest board
\* with blocks, N = 4.
N == 4

\* std::numeric_limits<size_t>::max(), used only as the "no empty cell" mark
\* of next() and compared for equality with coordinates below N.
SizeMax == 2147483647

\* Inputs of solve and put differ from a base board in at most MaxEdits
\* cells, inputs of isValid in at most MaxEdits + 1.
MaxEdits == 1

\* Arguments of isqrt range over 0 .. MaxIsqrtArg.
MaxIsqrtArg == 120

Cells == 0 .. (N * N - 1)
Coords == 0 .. (N - 1)
Values == 0 .. N

(***************************************************************************)
(* math::isqrt                                                             *)
(***************************************************************************)

\* for (T t{}; t < n; ++t) if (t * t == n) return t;  return T{};
\* The loop returns the first t below n whose square is n, and 0 when the
\* loop ends without one.  (With T = size_t, t * t does not wrap for the
\* arguments considered here.)
isqrt(n) ==
    IF \E t \in 0 .. (n - 1) : t * t = n
        THEN CHOOSE t \in 0 .. (n - 1) :
                 /\ t * t = n
                 /\ \A u \in 0 .. (t - 1) : u * u # n
        ELSE 0

(***************************************************************************)
(* GenSudoku: access and sections                                          *)
(***************************************************************************)

side == isqrt(N)

get(b, x, y) == IF x * N + y >= N * N THEN 0 ELSE b[x * N + y]

\* put with the coordinates exchanged; PutWritesReceiver must reject it.
putTransposed(b, x, y, val) == [b EXCEPT ![y * N + x] = val]

\* boardState[x * N + y] = val: the receiver's boardState after the call.
put(b, x, y, val) == [b EXCEPT ![x * N + y] = val]

row(b, x) == [y \in Coords |-> b[x * N + y]]

col(b, y) == [x \in Coords |-> b[x * N + y]]

\* quadrantIndex without the factor side: the quadrants overlap;
\* IsValidIffNoRepeat must reject it.
quadrantIndexUnscaled(x, y, i, j) == (x * N + y) + (i * N + j)

\* quadrantIndex stepping from one row of the quadrant to the next by side
\* instead of N: a solved board then looks invalid; SolveSolvedIsNoOp must
\* reject it.
quadrantIndexRowStride(x, y, i, j) == side * (x * N + y) + (i * side + j)

\* The index of boardState read for entry (i, j) of quadrant (x, y).
quadrantIndex(x, y, i, j) == side * (x * N + y) + (i * N + j)

\* bs{} is zero-initialised; entry i * side + j is overwritten for i, j < side.
quadrant(b, x, y) ==
    [k \in Coords |->
        IF \E i, j \in 0 .. (side - 1) : i * side + j = k
            THEN LET ij == CHOOSE ij \in (0 .. (side - 1)) \X (0 .. (side - 1)) :
                               ij[1] * side + ij[2] = k
                 IN  b[quadrantIndex(x, y, ij[1], ij[2])]
            ELSE 0]

RECURSIVE sectionValidLoop(_, _, _)
sectionValidLoop(bs, k, positions) ==
    IF k = N
        THEN TRUE
        ELSE LET i == bs[k]
             IN  IF i = 0
                     THEN sectionValidLoop(bs, k + 1, positions)
                     ELSE IF positions[i]
                              THEN FALSE
                              ELSE sectionValidLoop(bs, k + 1,
                                       [positions EXCEPT ![i] = TRUE])

sectionValid(bs) == sectionValidLoop(bs, 0, [i \in 0 .. N |-> FALSE])

rowValid(b, x) == sectionValid(row(b, x))

colValid(b, y) == sectionValid(col(b, y))

quadrantValid(b, x, y) == sectionValid(quadrant(b, x, y))

\* The first position holding 0 in row-major order, or the SizeMax pair.
next(b) ==
    IF \E x, y \in Coords : get(b, x, y) = 0
        THEN CHOOSE p \in Coords \X Coords :
                 /\ get(b, p[1], p[2]) = 0
                 /\ \A x, y \in Coords :
                        get(b, x, y) = 0 => p[1] * N + p[2] <= x * N + y
        ELSE <<SizeMax, SizeMax>>

isValid(b) ==
    /\ \A x \in Coords : rowValid(b, x)
    /\ \A y \in Coords : colValid(b, y)
    /\ \A x, y \in 0 .. (side - 1) : quadrantValid(b, x, y)

isComplete(b) == \A x, y \in Coords : get(b, x, y) # 0

isSolved(b) == isValid(b) /\ isComplete(b)

(***************************************************************************)
(* Input boards                                                            *)
(***************************************************************************)

\* A board literal, written row by row as in main().
Literal(t) == [k \in Cells |-> t[k + 1]]

\* GenSudoku{}: every cell empty.
ZeroBoard == [k \in Cells |-> 0]

\* A solved 4 x 4 grid.
SolvedBoard ==
    Literal(<<1, 2, 3, 4,
              3, 4, 1, 2,
              2, 1, 4, 3,
              4, 3, 2, 1>>)

\* A valid board with no completion: no digit fits at (0, 3).
StuckBoard ==
    Literal(<<1, 2, 3, 0,
              0, 0, 0, 4,
              0, 0, 0, 0,
              0, 0, 0, 0>>)

\* A valid board with several completions: the upper half of SolvedBoard.
HalfBoard ==
    Literal(<<1, 2, 3, 4,
              3, 4, 1, 2,
              0, 0, 0, 0,
              0, 0, 0, 0>>)

BaseBoards == {HalfBoard, SolvedBoard, StuckBoard}

\* The sets of at most k cells.
CellSets(k) == {S \in SUBSET Cells : Cardinality(S) <= k}

\* b with the cells of DOMAIN f holding the values of f.
Overwrite(b, f) == [c \in Cells |-> IF c \in DOMAIN f THEN f[c] ELSE b[c]]

\* bd is the empty board, or a base board with at most k cells overwritten
\* by any values.
InputBoard(bd, k) ==
    \/ bd = ZeroBoard
    \/ \E b \in BaseBoards : \E S \in CellSets(k) : \E f \in [S -> Values] :
           bd = Overwrite(b, f)

(***************************************************************************)
(* State                                                                   *)
(***************************************************************************)

VARIABLES
    sudoku,   \* the caller's board: the object solve / put / isValid is called on
    phase,    \* main's position: "first", "second" (solve of the result), "done"
    stack,    \* the frames of solve, outermost first
    ret,      \* the board returned by the call that returned last
    last,     \* the call of solve that returned last: argument, result, recursive calls
    res1,     \* main's res: the result of solve on sudoku
    res2,     \* the result of solve on res1
    call      \* the last call of put, isValid or isqrt: arguments and result

vars == <<sudoku, phase, stack, ret, last, res1, res2, call>>

\* A frame that has just been entered: no local is initialised yet.
\* calls and results are history: the recursive calls made so far and the
\* boards they returned.
NewFrame ==
    [pc |-> "enter", x |-> 0, y |-> 0, i |-> 0, ns |-> ZeroBoard,
     calls |-> 0, results |-> <<>>]

NoCall == [op |-> "none"]

\* A call of solve has just returned: its caller has not looked at the
\* result yet.  last is the same in the states that follow, up to the next
\* return.
Returned == last.set /\ (Len(stack) = 0 \/ stack[Len(stack)].pc = "called")

NoLast ==
    [set |-> FALSE, arg |-> ZeroBoard, res |-> ZeroBoard,
     calls |-> 0, results |-> <<>>, depth |-> 0]

\* *this of frame d: the caller's object for the outermost frame, the
\* calling frame's local ns otherwise (ns.solve()).
This(d) ==
    IF d = 1
        THEN IF phase = "first" THEN sudoku ELSE res1
        ELSE stack[d - 1].ns

Depth == Len(stack)

Top == stack[Depth]

(***************************************************************************)
(* solve                                                                   *)
(***************************************************************************)

\* return v; from the innermost frame.
Return(v) ==
    /\ ret' = v
    /\ last' = [set |-> TRUE, arg |-> This(Depth), res |-> v,
                calls |-> Top.calls, results |-> Top.results, depth |-> Depth]
    /\ stack' = SubSeq(stack, 1, Depth - 1)

\* SolveEnter without the isValid test; SolveInvalidReturnsAtOnce must reject it.
SolveEnterUnchecked ==
    /\ Depth > 0
    /\ Top.pc = "enter"
    /\ LET p == next(This(Depth))
       IN  IF p[1] = SizeMax
               THEN Return(This(Depth))
               ELSE /\ stack' = [stack EXCEPT ![Depth] =
                          [@ EXCEPT !.pc = "loop", !.x = p[1], !.y = p[2], !.i = 1]]
                    /\ UNCHANGED <<ret, last>>
    /\ UNCHANGED <<sudoku, phase, res1, res2, call>>

\* if (!isValid()) return *this;
\* const auto[x, y] = next(); if (x == max) return *this;
\* for (unsigned i = 1; ...
SolveEnter ==
    /\ Depth > 0
    /\ Top.pc = "enter"
    /\ IF ~isValid(This(Depth))
           THEN Return(This(Depth))
           ELSE LET p == next(This(Depth))
                IN  IF p[1] = SizeMax
                        THEN Return(This(Depth))
                        ELSE /\ stack' = [stack EXCEPT ![Depth] =
                                   [@ EXCEPT !.pc = "loop", !.x = p[1], !.y = p[2], !.i = 1]]
                             /\ UNCHANGED <<ret, last>>
    /\ UNCHANGED <<sudoku, phase, res1, res2, call>>

\* SolveTry trying the digits from N down to 1; SolveReturnsLexFirst must
\* reject it.
SolveTryDescending ==
    /\ Depth > 0
    /\ Top.pc = "loop"
    /\ Top.i <= N
    /\ LET tmp == put(This(Depth), Top.x, Top.y, N + 1 - Top.i)
       IN  stack' = Append([stack EXCEPT ![Depth] =
                               [@ EXCEPT !.pc = "called", !.ns = tmp, !.calls = @ + 1]],
                           NewFrame)
    /\ UNCHANGED <<sudoku, phase, ret, last, res1, res2, call>>

\* SolveTry with put called on *this instead of on a copy of it;
\* SolveCopiesBoard must reject it.
SolveTryInPlace ==
    /\ Depth > 0
    /\ Top.pc = "loop"
    /\ Top.i <= N
    /\ LET tmp == put(This(Depth), Top.x, Top.y, Top.i)
           written == IF Depth > 1
                          THEN [stack EXCEPT ![Depth - 1] = [@ EXCEPT !.ns = tmp]]
                          ELSE stack
       IN  /\ stack' = Append([written EXCEPT ![Depth] =
                                  [@ EXCEPT !.pc = "called", !.ns = tmp, !.calls = @ + 1]],
                              NewFrame)
           /\ sudoku' = IF Depth = 1 /\ phase = "first" THEN tmp ELSE sudoku
           /\ res1' = IF Depth = 1 /\ phase # "first" THEN tmp ELSE res1
    /\ UNCHANGED <<phase, ret, last, res2, call>>

\* i <= N: const auto ns = GenSudoku(*this).put(x, y, i); ns.solve()
\* put writes into the temporary copy, and ns is a copy of the temporary.
SolveTry ==
    /\ Depth > 0
    /\ Top.pc = "loop"
    /\ Top.i <= N
    /\ LET tmp == put(This(Depth), Top.x, Top.y, Top.i)
       IN  stack' = Append([stack EXCEPT ![Depth] =
                               [@ EXCEPT !.pc = "called", !.ns = tmp, !.calls = @ + 1]],
                           NewFrame)
    /\ UNCHANGED <<sudoku, phase, ret, last, res1, res2, call>>

\* SolveCheck without res.isValid(); SolveFindsCompletion must reject it.
SolveCheckCompleteOnly ==
    /\ Depth > 0
    /\ Top.pc = "called"
    /\ IF isComplete(ret)
           THEN /\ ret' = ret
                /\ last' = [set |-> TRUE, arg |-> This(Depth), res |-> ret,
                            calls |-> Top.calls, results |-> Append(Top.results, ret),
                            depth |-> Depth]
                /\ stack' = SubSeq(stack, 1, Depth - 1)
           ELSE /\ stack' = [stack EXCEPT ![Depth] =
                                [@ EXCEPT !.pc = "loop", !.i = @ + 1,
                                          !.results = Append(@, ret)]]
                /\ UNCHANGED <<ret, last>>
    /\ UNCHANGED <<sudoku, phase, res1, res2, call>>

\* SolveCheck without ++i: the same digit is tried again; SolveTerminates
\* must reject it.
SolveCheckNoIncrement ==
    /\ Depth > 0
    /\ Top.pc = "called"
    /\ IF isComplete(ret) /\ isValid(ret)
           THEN /\ ret' = ret
                /\ last' = [set |-> TRUE, arg |-> This(Depth), res |-> ret,
                            calls |-> Top.calls, results |-> Append(Top.results, ret),
                            depth |-> Depth]
                /\ stack' = SubSeq(stack, 1, Depth - 1)
           ELSE /\ stack' = [stack EXCEPT ![Depth] =
                                [@ EXCEPT !.pc = "loop", !.results = Append(@, ret)]]
                /\ UNCHANGED <<ret, last>>
    /\ UNCHANGED <<sudoku, phase, res1, res2, call>>

\* const auto res = <returned>; if (res.isComplete() && res.isValid()) return res; ++i
SolveCheck ==
    /\ Depth > 0
    /\ Top.pc = "called"
    /\ IF isComplete(ret) /\ isValid(ret)
           THEN /\ ret' = ret
                /\ last' = [set |-> TRUE, arg |-> This(Depth), res |-> ret,
                            calls |-> Top.calls, results |-> Append(Top.results, ret),
                            depth |-> Depth]
                /\ stack' = SubSeq(stack, 1, Depth - 1)
           ELSE /\ stack' = [stack EXCEPT ![Depth] =
                                [@ EXCEPT !.pc = "loop", !.i = @ + 1,
                                          !.results = Append(@, ret)]]
                /\ UNCHANGED <<ret, last>>
    /\ UNCHANGED <<sudoku, phase, res1, res2, call>>

\* SolveExhaust returning the board with the last digit tried still in
\* place; SolveFailureReturnsInput must reject it.
SolveExhaustTried ==
    /\ Depth > 0
    /\ Top.pc = "loop"
    /\ Top.i > N
    /\ Return(Top.ns)
    /\ UNCHANGED <<sudoku, phase, res1, res2, call>>

\* i > N: the loop ends; return *this;
SolveExhaust ==
    /\ Depth > 0
    /\ Top.pc = "loop"
    /\ Top.i > N
    /\ Return(This(Depth))
    /\ UNCHANGED <<sudoku, phase, res1, res2, call>>

\* constexpr Sudoku res = sudoku.solve(); returned: solve the result again.
MainSolved ==
    /\ phase = "first"
    /\ Depth = 0
    /\ res1' = ret
    /\ phase' = "second"
    /\ stack' = <<NewFrame>>
    /\ UNCHANGED <<sudoku, ret, last, res2, call>>

\* res.solve() returned.
MainResolved ==
    /\ phase = "second"
    /\ Depth = 0
    /\ res2' = ret
    /\ phase' = "done"
    /\ UNCHANGED <<sudoku, stack, ret, last, res1, call>>

Init ==
    /\ InputBoard(sudoku, MaxEdits)
    /\ phase = "first"
    /\ stack = <<NewFrame>>
    /\ ret = ZeroBoard
    /\ last = NoLast
    /\ res1 = ZeroBoard
    /\ res2 = ZeroBoard
    /\ call = NoCall

Next ==
    \/ SolveEnter
    \/ SolveTry
    \/ SolveCheck
    \/ SolveExhaust
    \/ MainSolved
    \/ MainResolved

Spec == Init /\ [][Next]_vars

\* solve is sequential code: a step that can be taken is taken.
FairSpec == Spec /\ WF_vars(Next)

(***************************************************************************)
(* put, isValid and isqrt, each called once on an input                    *)
(***************************************************************************)

Idle ==
    /\ phase = "idle"
    /\ stack = <<>>
    /\ ret = ZeroBoard
    /\ last = NoLast
    /\ res1 = ZeroBoard
    /\ res2 = ZeroBoard
    /\ call = NoCall

\* sudoku.put(x, y, val): writes into the receiver, then return *this copies it.
Put ==
    /\ call.op = "none"
    /\ \E x, y \in Coords, val \in Values :
           /\ sudoku' = put(sudoku, x, y, val)
           /\ call' = [op |-> "put", before |-> sudoku, x |-> x, y |-> y,
                       val |-> val, ret |-> sudoku']
    /\ UNCHANGED <<phase, stack, ret, last, res1, res2>>

PutInit == InputBoard(sudoku, MaxEdits) /\ Idle

PutNext == Put

PutSpec == PutInit /\ [][PutNext]_vars

\* sudoku.isValid()
IsValid ==
    /\ call.op = "none"
    /\ call' = [op |-> "isValid", out |-> isValid(sudoku)]
    /\ UNCHANGED <<sudoku, phase, stack, ret, last, res1, res2>>

\* isValid is one step, so its inputs may differ from a base board in one
\* cell more than those of solve.
ValidInit == InputBoard(sudoku, MaxEdits + 1) /\ Idle

ValidNext == IsValid

ValidSpec == ValidInit /\ [][ValidNext]_vars

\* math::isqrt(n)
Isqrt ==
    /\ call.op = "none"
    /\ \E n \in 0 .. MaxIsqrtArg :
           call' = [op |-> "isqrt", n |-> n, out |-> isqrt(n)]
    /\ UNCHANGED <<sudoku, phase, stack, ret, last, res1, res2>>

IsqrtInit == sudoku = ZeroBoard /\ Idle

IsqrtNext == Isqrt

IsqrtSpec == IsqrtInit /\ [][IsqrtNext]_vars

(***************************************************************************)
(* What the properties are stated against: the rules of the puzzle,        *)
(* written without any of the definitions above                            *)
(***************************************************************************)

\* The side of a block.
Root == CHOOSE s \in 1 .. N : s * s = N

RowOf(c) == c \div N

ColOf(c) == c % N

SameBlock(c, d) ==
    /\ RowOf(c) \div Root = RowOf(d) \div Root
    /\ ColOf(c) \div Root = ColOf(d) \div Root

SameSection(c, d) ==
    \/ RowOf(c) = RowOf(d)
    \/ ColOf(c) = ColOf(d)
    \/ SameBlock(c, d)

\* The pairs of distinct cells that share a row, a column or a block.
SectionPairs == {p \in Cells \X Cells : p[1] # p[2] /\ SameSection(p[1], p[2])}

\* No two distinct cells of one row, column or block hold the same digit.
NoRepeat(b) == \A p \in SectionPairs : b[p[1]] # 0 => b[p[1]] # b[p[2]]

Full(b) == \A c \in Cells : b[c] # 0

SolvedGrid(b) == Full(b) /\ NoRepeat(b)

EmptyCells(b) == {c \in Cells : b[c] = 0}

\* g keeps every digit of b.
Agrees(g, b) == \A c \in Cells : b[c] # 0 => g[c] = b[c]

Perms == {p \in [Coords -> 1 .. N] : \A u, v \in Coords : u # v => p[u] # p[v]}

\* The board whose first Len(rs) rows are rs, the other rows empty.
RowsBoard(rs) ==
    [c \in Cells |-> IF RowOf(c) < Len(rs) THEN rs[RowOf(c) + 1][ColOf(c)] ELSE 0]

\* The sequences of r rows that break no rule.
RECURSIVE GridRows(_)
GridRows(r) ==
    IF r = 0
        THEN {<<>>}
        ELSE {g \in {Append(h, p) : h \in GridRows(r - 1), p \in Perms} :
                  NoRepeat(RowsBoard(g))}

\* Every solved grid of dimension N.
AllSolved == {RowsBoard(g) : g \in GridRows(N)}

Completions(b) == {g \in AllSolved : Agrees(g, b)}

\* g comes before h as sequences of cells in row-major order.
LexLess(g, h) ==
    \E c \in Cells : g[c] < h[c] /\ \A d \in 0 .. (c - 1) : g[d] = h[d]

LexFirst(S) == CHOOSE g \in S : \A h \in S : h = g \/ LexLess(g, h)

IsSquare(n) == \E t \in 0 .. n : t * t = n

(***************************************************************************)
(* Properties                                                              *)
(***************************************************************************)

\* C7: isqrt(n) returns t with t * t = n when n is a perfect square
\* (0 and 1 included) and 0 when it is not.
IsqrtReturnsRoot ==
    call.op = "isqrt" =>
        /\ IsSquare(call.n) => call.out * call.out = call.n
        /\ ~IsSquare(call.n) => call.out = 0

\* C5 as stated: put returns the receiver's board with (x, y) set to val,
\* and the receiver holds after the call what it held before.
PutLeavesReceiver ==
    call.op = "put" =>
        /\ call.ret = [call.before EXCEPT ![call.x * N + call.y] = call.val]
        /\ sudoku = call.before

\* C5 amended: put returns the receiver's board with (x, y) set to val and
\* no other cell changed, and the receiver holds that same board after the
\* call: the write is made in the receiver.
PutWritesReceiver ==
    call.op = "put" =>
        /\ call.ret[call.x * N + call.y] = call.val
        /\ \A c \in Cells : c # call.x * N + call.y => call.ret[c] = call.before[c]
        /\ sudoku = call.ret

PutWitness ==
    /\ call.op = "put"
    /\ call.before[call.x * N + call.y] # call.val
    /\ call.val # 0
    /\ sudoku # call.before

\* The cells read for quadrant (x, y).
QuadrantCells(x, y) == {quadrantIndex(x, y, i, j) : i, j \in 0 .. (side - 1)}

\* C6: isValid() is true exactly when no two distinct cells of one row,
\* column or aligned block hold the same non-zero value; the N quadrants
\* read are the aligned blocks, and every cell lies in exactly one.
IsValidIffNoRepeat ==
    call.op = "isValid" =>
        /\ call.out <=> NoRepeat(sudoku)
        /\ Cardinality((0 .. (side - 1)) \X (0 .. (side - 1))) = N
        /\ \A x, y \in 0 .. (side - 1) :
               QuadrantCells(x, y) =
                   {c \in Cells : RowOf(c) \div Root = x /\ ColOf(c) \div Root = y}
        /\ \A c \in Cells :
               Cardinality({q \in (0 .. (side - 1)) \X (0 .. (side - 1)) :
                               c \in QuadrantCells(q[1], q[2])}) = 1

\* A board whose only repeat is inside a block, on neither a row nor a column.
IsValidWitness ==
    /\ call.op = "isValid"
    /\ ~call.out
    /\ \A c, d \in Cells :
           (c # d /\ sudoku[c] # 0 /\ sudoku[c] = sudoku[d]) =>
               (RowOf(c) # RowOf(d) /\ ColOf(c) # ColOf(d))

Min(a, b) == IF a < b THEN a ELSE b

\* The first empty cell of b in row-major order.
FirstEmpty(b) == CHOOSE c \in EmptyCells(b) : \A d \in EmptyCells(b) : c <= d

\* C1: solve returns a solved board that keeps the digits of its input
\* exactly when the input has a completion, and a board that is not solved
\* when it has none.  Stated of every call of solve, nested or not.
SolveFindsCompletion ==
    Returned =>
        /\ (SolvedGrid(last.res) /\ Agrees(last.res, last.arg))
               <=> Completions(last.arg) # {}
        /\ Completions(last.arg) = {} => ~SolvedGrid(last.res)

\* The outermost call returned a solved board for an input with N or more
\* empty cells.
SolveFindsCompletionWitness ==
    /\ last.set
    /\ last.depth = 1
    /\ phase = "first"
    /\ Cardinality(EmptyCells(last.arg)) >= N
    /\ SolvedGrid(last.res)

\* C2: on a valid board with completions, solve returns the first of them
\* in the row-major lexicographic order.
SolveReturnsLexFirst ==
    (Returned /\ NoRepeat(last.arg) /\ Completions(last.arg) # {}) =>
        last.res = LexFirst(Completions(last.arg))

\* The outermost call returned for an input with several completions.
SolveReturnsLexFirstWitness ==
    /\ last.set
    /\ last.depth = 1
    /\ phase = "first"
    /\ Cardinality(Completions(last.arg)) > 1
    /\ SolvedGrid(last.res)

\* Every digit 1 .. N was tried at the first empty cell and no recursive
\* call returned a solved board.
AllCandidatesFailed ==
    /\ Len(last.results) = N
    /\ \A k \in 1 .. N : ~SolvedGrid(last.results[k])

\* C3: when the board is valid and incomplete and no digit at its first
\* empty cell leads to a solved board, solve returns the board as it was
\* called on, the tried cell empty again, and the result is not solved.
SolveFailureReturnsInput ==
    (/\ Returned
     /\ NoRepeat(last.arg)
     /\ ~Full(last.arg)
     /\ AllCandidatesFailed \/ Completions(last.arg) = {}) =>
        /\ \A c \in Cells : last.res[c] = last.arg[c]
        /\ last.res[FirstEmpty(last.arg)] = 0
        /\ ~isSolved(last.res)

\* A call failed after one of its candidates was itself searched: a
\* recursive call was made on a valid board and returned it unsolved.
SolveFailureWitness ==
    /\ last.set
    /\ NoRepeat(last.arg)
    /\ ~Full(last.arg)
    /\ AllCandidatesFailed
    /\ \E k \in 1 .. N : NoRepeat(last.results[k])

\* C4: on a board that is not valid, solve returns the board unchanged
\* before the loop: it made no recursive call, hence no put, which the
\* code performs only to build the argument of a recursive call.
SolveInvalidReturnsAtOnce ==
    (Returned /\ ~isValid(last.arg)) =>
        /\ \A c \in Cells : last.res[c] = last.arg[c]
        /\ last.calls = 0
        /\ last.results = <<>>

\* The outermost call returned on an input that holds a digit twice in a row.
SolveInvalidWitness ==
    /\ last.set
    /\ last.depth = 1
    /\ phase = "first"
    /\ ~isValid(last.arg)
    /\ \E c, d \in Cells :
           c # d /\ RowOf(c) = RowOf(d) /\ last.arg[c] # 0 /\ last.arg[c] = last.arg[d]

\* C8: solve returns a complete and valid board unchanged, isSolved() being
\* true of the argument and of the result; and solving the result of solve
\* again returns the same board.
SolveSolvedIsNoOp ==
    /\ (Returned /\ SolvedGrid(last.arg)) =>
           /\ \A c \in Cells : last.res[c] = last.arg[c]
           /\ isSolved(last.arg)
           /\ isSolved(last.res)
    /\ phase = "done" => res2 = res1

\* An unsolved input was solved, and its result was solved again.
SolveSolvedWitness ==
    /\ phase = "done"
    /\ SolvedGrid(res1)
    /\ ~Full(sudoku)
    /\ last.arg = res1

\* The nesting of calls below the outermost one is at most the number of
\* empty cells of the input, and a frame makes at most N recursive calls.
SearchBounded ==
    /\ Depth >= 1 => Depth - 1 <= Cardinality(EmptyCells(This(1)))
    /\ \A d \in 1 .. Depth : stack[d].calls <= N /\ stack[d].i <= N + 1

\* C9: solve returns on every input, within those bounds.
SolveTerminates == [] SearchBounded /\ <>(phase = "done")

\* The recursion is as deep as the input has empty cells, more than N of them.
SolveTerminatesWitness ==
    /\ Depth >= 1
    /\ Depth - 1 = Cardinality(EmptyCells(This(1)))
    /\ Depth - 1 > N

\* A step of solve leaves the caller's board and the board of every frame
\* that stays on the stack as they were, and a recursive call is made on the
\* calling frame's board with its first empty cell, and no other, set to a
\* digit.
CopyStep ==
    /\ sudoku' = sudoku
    /\ phase' = phase =>
           \A d \in 1 .. Min(Depth, Depth') : This(d)' = This(d)
    /\ (Depth >= 1 /\ Depth' = Depth + 1) =>
           LET parent == This(Depth)
               child == stack'[Depth].ns
           IN  /\ EmptyCells(parent) # {}
               /\ child[FirstEmpty(parent)] \in 1 .. N
               /\ \A c \in Cells : c # FirstEmpty(parent) => child[c] = parent[c]

\* C10: the board handed to a recursive call differs from the frame's board
\* in its first empty cell only, and no call changes the board of the frame
\* that made it, of an outer frame or of the caller.
SolveCopiesBoard == [][CopyStep]_vars

\* A nested frame whose first candidate has failed tries a later one.
SolveCopiesBoardWitness ==
    /\ Depth >= 2
    /\ Top.pc = "called"
    /\ Top.i >= 2
    /\ This(Depth)[Top.x * N + Top.y] = 0
    /\ Top.ns[Top.x * N + Top.y] = Top.i

=============================================================================
